---- MODULE Spec2Model ----
(***************************************************************************)
(* Model of StreamlitProcurement.py: a Streamlit script that extracts text *)
(* from an uploaded document, sends each chunk to a chat model, keeps the  *)
(* result in st.session_state for review and editing, and fills the        *)
(* "Description" column of an Excel template.                              *)
(*                                                                         *)
(* Every UI event re-runs the script top to bottom.  A run is cut at the   *)
(* points where it blocks on the outside world: each llm.invoke call, and  *)
(* the gap between wb.save(output_path) and open(output_path).             *)
(*                                                                         *)
(* Text is a sequence of tokens; the tokens " " and "\n" are whitespace.   *)
(* Python's None is the record with some = FALSE.                          *)
(***************************************************************************)
EXTENDS Integers, Sequences, FiniteSets, TLC

\* ---------------------------------------------------------------- bounds
MaxParas == 2          \* 3000-character paragraphs of the longest document
MaxTypedLines == 3     \* lines in the longest text typed into the text area
MaxTemplateRows == 2   \* data rows of the largest template

\* ------------------------------------------------------ program constants
chunk_size == 5000

Sessions == {1, 2}

NL == "\n"
Whitespace == {" ", NL}

Some(v) == [some |-> TRUE, val |-> v]
PyNone == [some |-> FALSE, val |-> <<>>]

Last(s) == s[Len(s)]

\* ------------------------------------------------------------ str methods
RECURSIVE Split(_, _)
\* str.split(sep): the pieces between the separators; "" gives [""]
Split(s, sep) ==
    IF \A i \in 1..Len(s) : s[i] # sep
    THEN <<s>>
    ELSE LET i == CHOOSE k \in 1..Len(s) :
                      s[k] = sep /\ \A j \in 1..(k - 1) : s[j] # sep
         IN  <<SubSeq(s, 1, i - 1)>> \o Split(SubSeq(s, i + 1, Len(s)), sep)

RECURSIVE Join(_, _)
\* sep.join(parts)
Join(parts, sep) ==
    IF parts = <<>> THEN <<>>
    ELSE IF Len(parts) = 1 THEN parts[1]
    ELSE parts[1] \o <<sep>> \o Join(Tail(parts), sep)

RECURSIVE LStrip(_)
LStrip(s) ==
    IF s # <<>> /\ Head(s) \in Whitespace THEN LStrip(Tail(s)) ELSE s

RECURSIVE RStrip(_)
RStrip(s) ==
    IF s # <<>> /\ Last(s) \in Whitespace
    THEN RStrip(SubSeq(s, 1, Len(s) - 1)) ELSE s

\* str.strip()
Strip(s) == RStrip(LStrip(s))

\* ------------------------------------------------------------- documents
\* A document is its name and the text its parser yields: a sequence of
\* paragraphs (separated by "\n\n"), each given by its length in characters.
Paras(k, len) == [i \in 1..k |-> len]

\* Six pages of text in one file and three in another, a scanned file of the
\* first one's name whose pages yield no text, and a file the uploader lets
\* through (it compares extensions without case) that line 49 does not parse.
Docs ==
    {[name |-> <<"spec", ".", "v2", ".", "pdf">>,
      text |-> <<1000>> \o Paras(MaxParas, 3000)],
     [name |-> <<"memo", ".", "docx">>, text |-> <<2000, 2000>>],
     [name |-> <<"memo", ".", "docx">>, text |-> <<>>],
     [name |-> <<"scan", ".", "PDF">>, text |-> <<3000>>]}

NoDoc == [some |-> FALSE, val |-> [name |-> <<>>, text |-> <<>>]]

file_extension(file) == Last(Split(file.name, "."))

ExtractTextAnyCase(file) ==
    IF file_extension(file) \in {<<"pdf">>, <<"PDF">>, <<"docx">>}
    THEN file.text ELSE <<>>

\* line 49: the parser's text for pdf and docx, "" for anything else
ExtractText(file) ==
    IF file_extension(file) = <<"pdf">> THEN file.text
    ELSE IF file_extension(file) = <<"docx">> THEN file.text
    ELSE <<>>

\* RecursiveCharacterTextSplitter(chunk_size, chunk_overlap=0).split_text on
\* paragraphs not longer than chunk_size: paragraphs are merged greedily
\* while the merged length, separators included, stays within chunk_size.
ChunkLen(chunk) ==
    LET RECURSIVE Sum(_)
        Sum(c) == IF c = <<>> THEN 0 ELSE Head(c) + Sum(Tail(c))
    IN  Sum(chunk) + (IF Len(chunk) > 1 THEN 2 * (Len(chunk) - 1) ELSE 0)

RECURSIVE MergeSplits(_, _)
MergeSplits(splits, current) ==
    IF splits = <<>>
    THEN IF current = <<>> THEN <<>> ELSE <<current>>
    ELSE IF current # <<>> /\ ChunkLen(Append(current, Head(splits))) > chunk_size
         THEN <<current>> \o MergeSplits(Tail(splits), <<Head(splits)>>)
         ELSE MergeSplits(Tail(splits), Append(current, Head(splits)))

split_text(text) == MergeSplits(text, <<>>)

\* ------------------------------------------------------- model responses
Responses ==
    {<<" ", "a", NL, "b", NL>>, <<NL>>}

\* ------------------------------------------------- text typed by the user
TypedTexts ==
    {Join([i \in 1..MaxTypedLines |-> <<"x">>], NL)}

NoEdit == PyNone

\* -------------------------------------------------------------- templates
\* A sheet is its rows, row 1 being the headers; a cell is None or a string.
Str(v) == Some(v)
DataRow(cells) == [c \in 1..Len(cells) |-> Str(<<cells[c]>>)]

Description == <<"Description">>
Description2 == <<"Description", " ", "2">>

\* headers ID, Description, Description 2 and MaxTemplateRows data rows
FullTemplate ==
    <<<<Str(<<"ID">>), Str(Description), Str(Description2)>>>>
        \o [r \in 1..MaxTemplateRows |-> DataRow(<<"id", "old", "old2">>)]

\* two columns headed Description, none headed Description 2
TwoDescriptionTemplate ==
    <<<<Str(Description), Str(<<"ID">>), Str(Description)>>,
      DataRow(<<"old", "id", "old">>)>>

\* no header is exactly "Description"
NoDescriptionTemplate ==
    <<<<Str(<<"ID">>), Str(<<"description">>), Str(Description2)>>,
      DataRow(<<"id", "old", "old2">>)>>

Templates == {FullTemplate, TwoDescriptionTemplate, NoDescriptionTemplate}

NoSheet == PyNone

max_column(sheet) == Len(sheet[1])

CellValue(sheet, r, c) ==
    IF r <= Len(sheet) THEN sheet[r][c] ELSE PyNone

\* sheet.cell(row, column, value): the cell is created when the row does not
\* exist yet, and its value is set
SetCell(sheet, r, c, v) ==
    LET grown == [i \in 1..(IF r > Len(sheet) THEN r ELSE Len(sheet)) |->
                    IF i <= Len(sheet) THEN sheet[i]
                    ELSE [k \in 1..max_column(sheet) |-> PyNone]]
    IN  [grown EXCEPT ![r][c] = v]

AnyCaseHeaderColumn(sheet, header) ==
    LET cols == {c \in 1..max_column(sheet) :
                   sheet[1][c] \in {Str(header), Str(<<"description">>)}}
    IN  IF cols = {} THEN 0
        ELSE CHOOSE c \in cols : \A d \in cols : d <= c

\* lines 114-116: col_indices.get(header); a later column with the same
\* header replaces an earlier one in the dict; 0 stands for None
col_indices_get(sheet, header) ==
    LET cols == {c \in 1..max_column(sheet) : sheet[1][c] = Str(header)}
    IN  IF cols = {} THEN 0
        ELSE CHOOSE c \in cols : \A d \in cols : d <= c

RECURSIVE FillRows(_, _, _, _, _)
\* lines 122-126: one row per line, from row_idx on
FillRows(sheet, lines, row_idx, desc_col, desc2_col) ==
    IF lines = <<>> THEN sheet
    ELSE LET s1 == SetCell(sheet, row_idx, desc_col, Str(Head(lines)))
             s2 == IF desc2_col # 0
                   THEN SetCell(s1, row_idx, desc2_col, Str(<<>>))
                   ELSE s1
         IN  FillRows(s2, Tail(lines), row_idx + 1, desc_col, desc2_col)

FillTemplateFromRow1(sheet, lines) ==
    FillRows(sheet, lines, 1,
             col_indices_get(sheet, Description),
             col_indices_get(sheet, Description2))

FillTemplateClearColumn(sheet, lines) ==
    LET d2 == col_indices_get(sheet, Description2)
        filled == FillRows(sheet, lines, 2,
                           col_indices_get(sheet, Description), d2)
    IN  [r \in 1..Len(filled) |->
           IF r > 1 /\ d2 # 0 THEN [filled[r] EXCEPT ![d2] = Str(<<>>)]
           ELSE filled[r]]

\* lines 110-129: the workbook after the fill loop (row_idx starts at 2)
FillTemplate(sheet, lines) ==
    FillRows(sheet, lines, 2,
             col_indices_get(sheet, Description),
             col_indices_get(sheet, Description2))

\* line 96: "extracted_data" in st.session_state and st.session_state[...]
ReviewGuard(keys, data) ==
    "extracted_data" \in keys /\ data.some /\ data.val # <<>>

\* line 91: "extracted_data" not in st.session_state or file_name != name
ExtractionGuard(keys, stored_name, name) ==
    "extracted_data" \notin keys \/ stored_name # name

formatted_text_spaces(data) == Join(data, " ")

\* line 100
formatted_text(data) == Join(data, NL)

\* line 106
edited_lines(edited_text) == Split(edited_text, NL)

\* the exception llm.invoke raises reaches the user as Streamlit's error box;
\* nothing in lines 59-81 or 92 attaches the chunk index to it (chunk = 0)
UncaughtException == [kind |-> "exception", chunk |-> 0]
Outcome(kind) == [kind |-> kind, chunk |-> 0]

\* ----------------------------------------------------------------- state
VARIABLES
    pc,              \* where each session's script run stands
    uploaded_file,   \* line 86: the document in the uploader, or None
    excel_template,  \* line 87: the template in the uploader, or None
    ss_keys,         \* the keys present in st.session_state
    extracted_data,  \* st.session_state["extracted_data"]
    file_name,       \* st.session_state["file_name"]
    edited_data,     \* st.session_state["edited_data"]
    text_chunks,     \* line 56, of the current process_document call
    calls,           \* the chunks sent to the model by that call, in order
    resps,           \* the raw responses received by that call, in order
    partial,         \* line 57: the local list extracted_data of that call
    wb,              \* line 110: the workbook of this run's fill action
    offered,         \* line 131: the workbook read for the download button
    outcome,         \* what the run showed to the user
    disk,            \* the file updated_template.xlsx, shared by all sessions
    ran,             \* history: process_document was called in this run
    typed,           \* history: the text the user typed, NoEdit if none
    fill_clicked,    \* history: this run took the Fill Template branch
    edited_from      \* history: file_name when edited_data was computed

vars == <<pc, uploaded_file, excel_template, ss_keys, extracted_data,
          file_name, edited_data, text_chunks, calls, resps, partial, wb,
          offered, outcome, disk, ran, typed, fill_clicked, edited_from>>

store == <<ss_keys, extracted_data, file_name>>
edits == <<edited_data, edited_from>>
uploads == <<uploaded_file, excel_template>>
call_log == <<text_chunks, calls, resps, partial>>
fill_out == <<wb, offered, disk>>

Init ==
    /\ pc = [s \in Sessions |-> "idle"]
    /\ uploaded_file = [s \in Sessions |-> NoDoc]
    /\ excel_template = [s \in Sessions |-> NoSheet]
    /\ ss_keys = [s \in Sessions |-> {}]
    /\ extracted_data = [s \in Sessions |-> PyNone]
    /\ file_name = [s \in Sessions |-> <<>>]
    /\ edited_data = [s \in Sessions |-> <<>>]
    /\ text_chunks = [s \in Sessions |-> <<>>]
    /\ calls = [s \in Sessions |-> <<>>]
    /\ resps = [s \in Sessions |-> <<>>]
    /\ partial = [s \in Sessions |-> <<>>]
    /\ wb = [s \in Sessions |-> NoSheet]
    /\ offered = [s \in Sessions |-> NoSheet]
    /\ outcome = [s \in Sessions |-> Outcome("none")]
    /\ disk = NoSheet
    /\ ran = [s \in Sessions |-> FALSE]
    /\ typed = [s \in Sessions |-> NoEdit]
    /\ fill_clicked = [s \in Sessions |-> FALSE]
    /\ edited_from = [s \in Sessions |-> <<>>]

\* --------------------------------------------------------------- actions
\* A UI event starts a run of the script with the uploaders' current files
\* (lines 86-93 up to the first model call).
Rerun(s, D, T) ==
    /\ pc[s] = "idle"
    /\ \E f \in {Some(d) : d \in D} \cup {NoDoc},
          t \in {Some(x) : x \in T} \cup {NoSheet} :
        /\ uploaded_file' = [uploaded_file EXCEPT ![s] = f]
        /\ excel_template' = [excel_template EXCEPT ![s] = t]
        /\ outcome' = [outcome EXCEPT ![s] = Outcome("running")]
        /\ wb' = [wb EXCEPT ![s] = NoSheet]
        /\ offered' = [offered EXCEPT ![s] = NoSheet]
        /\ typed' = [typed EXCEPT ![s] = NoEdit]
        /\ fill_clicked' = [fill_clicked EXCEPT ![s] = FALSE]
        /\ UNCHANGED <<disk, edits>>
        /\ IF f.some /\ ExtractionGuard(ss_keys[s], file_name[s], f.val.name)
           THEN \* line 92: process_document(uploaded_file)
                /\ ran' = [ran EXCEPT ![s] = TRUE]
                /\ calls' = [calls EXCEPT ![s] = <<>>]
                /\ resps' = [resps EXCEPT ![s] = <<>>]
                /\ partial' = [partial EXCEPT ![s] = <<>>]
                /\ IF ExtractText(f.val) = <<>>
                   THEN \* lines 51-52 and 92-93: None is stored
                        /\ text_chunks' = [text_chunks EXCEPT ![s] = <<>>]
                        /\ extracted_data' = [extracted_data EXCEPT ![s] = PyNone]
                        /\ file_name' = [file_name EXCEPT ![s] = f.val.name]
                        /\ ss_keys' = [ss_keys EXCEPT ![s] =
                                         @ \cup {"extracted_data", "file_name"}]
                        /\ pc' = [pc EXCEPT ![s] = "review"]
                   ELSE /\ text_chunks' = [text_chunks EXCEPT ![s] =
                                             split_text(ExtractText(f.val))]
                        /\ pc' = [pc EXCEPT ![s] = "invoke"]
                        /\ UNCHANGED store
           ELSE /\ ran' = [ran EXCEPT ![s] = FALSE]
                /\ text_chunks' = [text_chunks EXCEPT ![s] = <<>>]
                /\ calls' = [calls EXCEPT ![s] = <<>>]
                /\ resps' = [resps EXCEPT ![s] = <<>>]
                /\ partial' = [partial EXCEPT ![s] = <<>>]
                /\ pc' = [pc EXCEPT ![s] = "review"]
                /\ UNCHANGED store

\* line 78: the call for the next chunk is issued
Invoke(s) ==
    /\ pc[s] = "invoke"
    /\ calls' = [calls EXCEPT ![s] = Append(@, text_chunks[s][Len(partial[s]) + 1])]
    /\ pc' = [pc EXCEPT ![s] = "await"]
    /\ UNCHANGED <<uploads, store, edits, text_chunks, resps, partial,
                   fill_out, outcome, ran, typed, fill_clicked>>

AppendUnstripped(blocks, r) == Append(blocks, r)

\* the local list after response r (line 79)
AppendBlock(blocks, r) == Append(blocks, Strip(r))

\* lines 78-81 and 92-93: the call returns; after the last chunk the list is
\* returned and stored with the file name
Respond(s, R) ==
    /\ pc[s] = "await"
    /\ \E r \in R :
        LET blocks == AppendBlock(partial[s], r) IN
        /\ resps' = [resps EXCEPT ![s] = Append(@, r)]
        /\ partial' = [partial EXCEPT ![s] = blocks]
        /\ IF Len(blocks) = Len(text_chunks[s])
           THEN /\ extracted_data' = [extracted_data EXCEPT ![s] = Some(blocks)]
                /\ file_name' = [file_name EXCEPT ![s] = uploaded_file[s].val.name]
                /\ ss_keys' = [ss_keys EXCEPT ![s] =
                                 @ \cup {"extracted_data", "file_name"}]
                /\ pc' = [pc EXCEPT ![s] = "review"]
           ELSE /\ pc' = [pc EXCEPT ![s] = "invoke"]
                /\ UNCHANGED store
    /\ UNCHANGED <<uploads, edits, text_chunks, calls, fill_out, outcome,
                   ran, typed, fill_clicked>>

\* line 78: the call raises (network, auth, rate limit); nothing catches it,
\* so the run ends there and line 92 assigns nothing
Fail(s) ==
    /\ pc[s] = "await"
    /\ outcome' = [outcome EXCEPT ![s] = UncaughtException]
    /\ pc' = [pc EXCEPT ![s] = "idle"]
    /\ UNCHANGED <<uploads, store, edits, call_log, fill_out, ran, typed,
                   fill_clicked>>

\* lines 96-133 up to wb.save: the review area, and the Fill Template branch
Review(s, Ty) ==
    /\ pc[s] = "review"
    /\ UNCHANGED <<uploads, extracted_data, file_name, call_log, ran, offered>>
    /\ IF ReviewGuard(ss_keys[s], extracted_data[s])
       THEN \E ty \in {Some(x) : x \in Ty} \cup {NoEdit}, click \in BOOLEAN :
            LET edited_text == IF ty.some THEN ty.val
                               ELSE formatted_text(extracted_data[s].val)
                lines == edited_lines(edited_text)
                sheet == excel_template[s].val
            IN
            /\ typed' = [typed EXCEPT ![s] = ty]
            /\ edited_data' = [edited_data EXCEPT ![s] = lines]
            /\ ss_keys' = [ss_keys EXCEPT ![s] = @ \cup {"edited_data"}]
            /\ edited_from' = [edited_from EXCEPT ![s] = file_name[s]]
            /\ IF excel_template[s].some /\ click
               THEN /\ fill_clicked' = [fill_clicked EXCEPT ![s] = TRUE]
                    /\ IF col_indices_get(sheet, Description) # 0
                       THEN /\ wb' = [wb EXCEPT ![s] = Some(FillTemplate(sheet, lines))]
                            /\ disk' = Some(FillTemplate(sheet, lines))
                            /\ outcome' = [outcome EXCEPT ![s] = Outcome("saved")]
                            /\ pc' = [pc EXCEPT ![s] = "download"]
                       ELSE /\ wb' = [wb EXCEPT ![s] = Some(sheet)]
                            /\ outcome' = [outcome EXCEPT ![s] =
                                             Outcome("template_error")]
                            /\ pc' = [pc EXCEPT ![s] = "idle"]
                            /\ UNCHANGED disk
               ELSE /\ outcome' = [outcome EXCEPT ![s] = Outcome("review")]
                    /\ pc' = [pc EXCEPT ![s] = "idle"]
                    /\ UNCHANGED <<wb, disk, fill_clicked>>
       ELSE /\ outcome' = [outcome EXCEPT ![s] = Outcome("nothing")]
            /\ pc' = [pc EXCEPT ![s] = "idle"]
            /\ UNCHANGED <<ss_keys, edits, wb, disk, typed, fill_clicked>>

\* lines 130-131: open(output_path, "rb") is read for the download button
Download(s) ==
    /\ pc[s] = "download"
    /\ offered' = [offered EXCEPT ![s] = disk]
    /\ outcome' = [outcome EXCEPT ![s] = Outcome("filled")]
    /\ pc' = [pc EXCEPT ![s] = "idle"]
    /\ UNCHANGED <<uploads, store, edits, call_log, wb, disk, ran, typed,
                   fill_clicked>>

\* One browser session: every document, template, response and edit
Next ==
    \/ Rerun(1, Docs, Templates)
    \/ Invoke(1)
    \/ Respond(1, Responses)
    \/ Fail(1)
    \/ Review(1, TypedTexts)
    \/ Download(1)

Spec == Init /\ [][Next]_vars

\* Two browser sessions of the same server process, each with the same
\* document and template; they share the file updated_template.xlsx
ConcDocs == {d \in Docs : d.name = <<"memo", ".", "docx">> /\ d.text # <<>>}

ConcNext ==
    \E s \in Sessions :
        \/ Rerun(s, ConcDocs, {FullTemplate})
        \/ Invoke(s)
        \/ Respond(s, Responses)
        \/ Fail(s)
        \/ Review(s, TypedTexts)
        \/ Download(s)

ConcSpec == Init /\ [][ConcNext]_vars

\* ---------------------------------------------------------------- claims
RunEnded(s) == pc[s] = "idle" /\ outcome[s].kind # "none"
ReviewShown(s) ==
    outcome[s].kind \in {"review", "saved", "filled", "template_error"}
Filled(s) == outcome[s].kind \in {"saved", "filled"}

\* the columns of row 1 whose header is exactly h, and the last of them
HeaderColumns(sheet, h) == {c \in 1..Len(sheet[1]) : sheet[1][c] = Str(h)}
LastColumn(sheet, h) ==
    IF HeaderColumns(sheet, h) = {} THEN 0
    ELSE CHOOSE c \in HeaderColumns(sheet, h) :
            \A d \in HeaderColumns(sheet, h) : d <= c
Larger(a, b) == IF a > b THEN a ELSE b

\* C1: once a run for an uploaded document has ended, the Review Store holds
\* no ExtractedData and no EditedLines derived from a document of another
\* name, also when the new document yields no text.
C1_NewDocumentDiscardsOld ==
    \A s \in Sessions :
        (RunEnded(s) /\ uploaded_file[s].some) =>
            /\ (("extracted_data" \in ss_keys[s] /\ extracted_data[s].some)
                    => file_name[s] = uploaded_file[s].val.name)
            /\ ("edited_data" \in ss_keys[s]
                    => edited_from[s] = uploaded_file[s].val.name)

\* C2: a fill action on a template without a header exactly "Description"
\* ends in the error outcome, writes no cell of the workbook, writes no
\* output file and offers no download.
C2_NoDescriptionNoWrites ==
    [][\A s \in Sessions :
         (fill_clicked'[s] /\ ~fill_clicked[s]
            /\ HeaderColumns(excel_template[s].val, Description) = {})
         => /\ outcome'[s].kind = "template_error"
            /\ pc'[s] = "idle"
            /\ wb'[s] = excel_template[s]
            /\ disk' = disk
            /\ ~offered'[s].some]_vars

C2_Witness ==
    \E s \in Sessions :
        /\ outcome[s].kind = "template_error"
        /\ fill_clicked[s]
        /\ HeaderColumns(excel_template[s].val, Description2) # {}

\* C3: after a fill on a template with a Description header, row i+1 of the
\* Description column holds line i of EditedLines, for every i, and row i+1
\* of the Description 2 column, if there is one, holds the empty string.
C3_FillWritesLinesInOrder ==
    \A s \in Sessions :
        Filled(s) =>
            LET sheet == excel_template[s].val
                d == LastColumn(sheet, Description)
                d2 == LastColumn(sheet, Description2)
            IN  /\ d # 0
                /\ \A i \in 1..Len(edited_data[s]) :
                     /\ CellValue(wb[s].val, i + 1, d) = Str(edited_data[s][i])
                     /\ d2 # 0 => CellValue(wb[s].val, i + 1, d2) = Str(<<>>)

C3_Witness ==
    \E s \in Sessions :
        /\ outcome[s].kind = "filled"
        /\ Len(edited_data[s]) > Len(excel_template[s].val) - 1
        /\ LastColumn(excel_template[s].val, Description2) # 0
        /\ offered[s] = wb[s]

\* C4: a fill with n EditedLines changes no cell value other than the
\* Description and Description 2 cells of rows 2..n+1, and adds no column
\* and no row beyond n+1.
C4_FillLeavesOtherCells ==
    \A s \in Sessions :
        Filled(s) =>
            LET sheet == excel_template[s].val
                out == wb[s].val
                n == Len(edited_data[s])
                d == LastColumn(sheet, Description)
                d2 == LastColumn(sheet, Description2)
            IN  /\ Len(out) = Larger(Len(sheet), n + 1)
                /\ \A r \in 1..Len(out) : Len(out[r]) = Len(sheet[1])
                /\ \A r \in 1..Len(out), c \in 1..Len(sheet[1]) :
                     ~(r \in 2..(n + 1) /\ c \in {d, d2})
                        => CellValue(out, r, c) = CellValue(sheet, r, c)

C4_Witness ==
    \E s \in Sessions :
        /\ outcome[s].kind = "filled"
        /\ Len(edited_data[s]) + 1 < Len(excel_template[s].val)
        /\ LastColumn(excel_template[s].val, Description2) # 0
        /\ wb[s].val # excel_template[s].val

\* C5: when the model call for chunk i fails, the error shown names i, no
\* call for a later chunk was issued, and no result shorter than the chunk
\* list is in the Review Store.
C5_FailureNamesChunk ==
    \A s \in Sessions :
        outcome[s].kind = "exception" =>
            /\ outcome[s].chunk = Len(calls[s])
            /\ Len(calls[s]) = Len(resps[s]) + 1
            /\ pc[s] = "idle"
            /\ ~(extracted_data[s].some
                   /\ file_name[s] = uploaded_file[s].val.name
                   /\ Len(extracted_data[s].val) < Len(text_chunks[s]))

\* block b is response r without its leading and trailing whitespace
IsTrimOf(b, r) ==
    /\ (b # <<>> => b[1] \notin Whitespace /\ b[Len(b)] \notin Whitespace)
    /\ \E i \in 0..Len(r) :
          /\ i + Len(b) <= Len(r)
          /\ SubSeq(r, i + 1, i + Len(b)) = b
          /\ \A j \in (1..i) \cup ((i + Len(b) + 1)..Len(r)) : r[j] \in Whitespace

Returned(s) ==
    /\ ran[s]
    /\ pc[s] \notin {"invoke", "await"}
    /\ outcome[s].kind # "exception"
    /\ extracted_data[s].some

\* C6: calls are issued one per chunk, in chunk order, each answered before
\* the next is issued; when process_document returns a result for k chunks,
\* k calls were issued and block j is the trimmed response to chunk j.
C6_OneCallPerChunkInOrder ==
    \A s \in Sessions :
        /\ Len(calls[s]) - Len(resps[s]) \in {0, 1}
        /\ Len(calls[s]) <= Len(text_chunks[s])
        /\ calls[s] = SubSeq(text_chunks[s], 1, Len(calls[s]))
        /\ Returned(s) =>
             LET chunks == split_text(ExtractText(uploaded_file[s].val))
                 result == extracted_data[s].val
             IN  /\ calls[s] = chunks
                 /\ Len(resps[s]) = Len(chunks)
                 /\ Len(result) = Len(chunks)
                 /\ \A j \in 1..Len(chunks) : IsTrimOf(result[j], resps[s][j])

C6_Witness ==
    \E s \in Sessions :
        /\ Returned(s)
        /\ Len(calls[s]) >= 2
        /\ \E j \in 1..Len(resps[s]) : resps[s][j] # extracted_data[s].val[j]

Unsupported(file) == file.name[Len(file.name)] \notin {"pdf", "docx"}

\* C7 as stated: for an uploaded document of unsupported extension or empty
\* text, no model call is issued and no extraction result is shown.
C7_NoTextNothingShown ==
    \A s \in Sessions :
        (RunEnded(s) /\ uploaded_file[s].some
           /\ ExtractText(uploaded_file[s].val) = <<>>)
        => calls[s] = <<>> /\ ~ReviewShown(s)

\* C7 amended: for a document of unsupported extension, and for a document
\* of empty text that is processed (nothing is stored yet, or its name
\* differs from the stored file name), the extracted text is empty, no model
\* call is issued and no extraction result is shown.
C7_ProcessedNoTextNothingShown ==
    \A s \in Sessions :
        (uploaded_file[s].some
           /\ \/ Unsupported(uploaded_file[s].val)
              \/ (ran[s] /\ uploaded_file[s].val.text = <<>>))
        => /\ ExtractText(uploaded_file[s].val) = <<>>
           /\ calls[s] = <<>>
           /\ pc[s] \in {"idle", "review"}
           /\ ~extracted_data[s].some
           /\ ~ReviewShown(s)

C7_Witness ==
    \E s \in Sessions :
        /\ uploaded_file[s].some
        /\ Unsupported(uploaded_file[s].val)
        /\ uploaded_file[s].val.text # <<>>
        /\ ran[s]
        /\ outcome[s].kind = "nothing"
        /\ "edited_data" \in ss_keys[s]

RECURSIVE BlockLines(_)
\* the lines of the blocks, block by block
BlockLines(blocks) ==
    IF blocks = <<>> THEN <<>>
    ELSE Split(Head(blocks), NL) \o BlockLines(Tail(blocks))

Unedited(s) == ReviewShown(s) /\ ~typed[s].some

\* C8 as stated: without a user edit, EditedLines is N lines, the blocks of
\* the ExtractionResult of length N split by newline.
C8_UneditedIsNLines ==
    \A s \in Sessions :
        Unedited(s) =>
            /\ edited_data[s] = BlockLines(extracted_data[s].val)
            /\ Len(edited_data[s]) = Len(extracted_data[s].val)

\* C8 amended: without a user edit, EditedLines is the lines of the blocks
\* (each block split by newline) in block order, no line lost, added or
\* merged; there are at least N of them.
C8_UneditedIsBlockLines ==
    \A s \in Sessions :
        Unedited(s) =>
            /\ edited_data[s] = BlockLines(extracted_data[s].val)
            /\ Len(edited_data[s]) >= Len(extracted_data[s].val)

C8_Witness ==
    \E s \in Sessions :
        /\ Unedited(s)
        /\ Len(extracted_data[s].val) >= 2
        /\ Len(edited_data[s]) > Len(extracted_data[s].val)

\* C9: a run calls process_document only when the uploaded document is not
\* the one that was uploaded in the run before.
C9_ExtractionOncePerDocument ==
    [][\A s \in Sessions :
         (pc[s] = "idle" /\ pc'[s] # "idle" /\ ran'[s])
         => uploaded_file'[s] # uploaded_file[s]]_vars

\* C10: the workbook a session offers for download is the one its own fill
\* action created.
C10_DownloadIsOwnWorkbook ==
    \A s \in Sessions : offered[s].some => offered[s] = wb[s]

====
